---------------------------- MODULE Spec2Model ----------------------------
(***************************************************************************)
(* A model of gifthing (src/gifthing.py): the ColorGenerator, the palette  *)
(* transforms (randcolor, setcolor), the argument validation and the       *)
(* open / check / transform / write / close sequence of a mode function.   *)
(*                                                                         *)
(* Numbers.  Python floats are modelled as exact rationals <<n, d>> in     *)
(* lowest terms with d > 0, plus the one special value NaN == <<0, 0>>     *)
(* (comparisons with NaN are false, arithmetic with NaN gives NaN, int()   *)
(* of NaN raises ValueError).  Rounding error of binary floating point is  *)
(* not modelled; everything else (truncation in int(), the sign and range  *)
(* of %, the order of operations) follows the code.                        *)
(*                                                                         *)
(* A color is a triple; channel index n of the code (0, 1, 2) is tuple     *)
(* position n + 1.                                                         *)
(***************************************************************************)
EXTENDS Integers, Sequences, FiniteSets, TLC

VARIABLES
    pc,          \* position of main() / the mode function, or of the harness
    args,        \* the argparse Namespace
    colortable,  \* gif.colortable: sequence of integer triples
    stream,      \* the GifStream: [open, closed, writes]
    generator,   \* the ColorGenerator instance (fields of __init__)
    rng_pos,     \* how many values random.random() has handed out so far
    last,        \* record of the last call made (arguments, draws, result)
    locals,      \* local variables of the running mode function
    trace        \* the steps of new_func executed so far, in order

vars == <<pc, args, colortable, stream, generator, rng_pos, last, locals, trace>>

---------------------------------------------------------------------------
(* Bounds of the model *)

\* longest palette / table handed to a transform
MaxLen == 2
\* most values the random source hands out to one generator in the API runs
MaxDraws == 6

---------------------------------------------------------------------------
(* Numbers *)

Abs(n) == IF n < 0 THEN -n ELSE n

RECURSIVE GCD(_, _)
GCD(a, b) == IF b = 0 THEN a ELSE GCD(b, a % b)

NaN == <<0, 0>>
IsNaN(x) == x[2] = 0

\* n / d in lowest terms, d # 0
Rat(n, d) ==
    LET g == GCD(Abs(n), Abs(d))
        s == IF d < 0 THEN -1 ELSE 1
    IN  <<(s * n) \div g, (s * d) \div g>>

Num(k) == <<k, 1>>
Zero == Num(0)
One == Num(1)

RAdd(a, b) == IF IsNaN(a) \/ IsNaN(b) THEN NaN
              ELSE Rat(a[1] * b[2] + b[1] * a[2], a[2] * b[2])
RSub(a, b) == IF IsNaN(a) \/ IsNaN(b) THEN NaN
              ELSE Rat(a[1] * b[2] - b[1] * a[2], a[2] * b[2])
RMul(a, b) == IF IsNaN(a) \/ IsNaN(b) THEN NaN
              ELSE Rat(a[1] * b[1], a[2] * b[2])
\* b is never zero where the code divides
RDiv(a, b) == IF IsNaN(a) \/ IsNaN(b) THEN NaN
              ELSE Rat(a[1] * b[2], a[2] * b[1])
RLt(a, b) == ~IsNaN(a) /\ ~IsNaN(b) /\ a[1] * b[2] < b[1] * a[2]
RLe(a, b) == ~IsNaN(a) /\ ~IsNaN(b) /\ a[1] * b[2] <= b[1] * a[2]
REq(a, b) == ~IsNaN(a) /\ ~IsNaN(b) /\ a[1] * b[2] = b[1] * a[2]

RMax(a, b) == IF RLt(a, b) THEN b ELSE a
RMin(a, b) == IF RLt(b, a) THEN b ELSE a

\* int(x): truncation toward zero (x not NaN)
Trunc(x) == IF x[1] >= 0 THEN x[1] \div x[2] ELSE -((-x[1]) \div x[2])

\* x % 1.0 of Python: the result has the sign of the divisor, so it is
\* x - floor(x), in [0, 1)
Mod1(x) == IF IsNaN(x) THEN NaN ELSE Rat(x[1] % x[2], x[2])

\* All sequences over S of length lo..hi
SeqsOf(S, lo, hi) == UNION {[1..n -> S] : n \in lo..hi}

Channels == 0..2

---------------------------------------------------------------------------
(* Encoding / decoding utilities *)

MaxByte == 255

\* table_int_to_float: (x / 255, y / 255, z / 255) per entry
table_int_to_float(table) ==
    [i \in 1..Len(table) |->
        <<Rat(table[i][1], MaxByte), Rat(table[i][2], MaxByte), Rat(table[i][3], MaxByte)>>]

\* itertools.chain.from_iterable(table): entry after entry, channels in order
RECURSIVE chain_from_iterable(_)
chain_from_iterable(table) ==
    IF table = <<>> THEN <<>> ELSE Head(table) \o chain_from_iterable(Tail(table))

\* int(255 * x) for one channel
float_to_int(x) == Trunc(RMul(Num(MaxByte), x))

\* bytes(...) raises ValueError when a value is not in range(256); int() raises
\* ValueError on NaN
table_float_to_bytes_raises(table) ==
    \E i \in 1..Len(table) : \E c \in 1..3 :
        \/ IsNaN(table[i][c])
        \/ float_to_int(table[i][c]) \notin 0..MaxByte

table_float_to_bytes(table) ==
    LET flat == chain_from_iterable(table)
    IN  [k \in 1..Len(flat) |-> float_to_int(flat[k])]

table_int_to_bytes_raises(table) ==
    \E i \in 1..Len(table) : \E c \in 1..3 : table[i][c] \notin 0..MaxByte

table_int_to_bytes(table) == chain_from_iterable(table)

---------------------------------------------------------------------------
(* Color-space converters (colorsys, called by table_rgb_to_hsv and         *)
(* table_hsv_to_rgb)                                                        *)

rgb_to_hsv(color) ==
    LET r == color[1]
        g == color[2]
        b == color[3]
        maxc == RMax(RMax(r, g), b)
        minc == RMin(RMin(r, g), b)
        rangec == RSub(maxc, minc)
        v == maxc
    IN  IF minc = maxc THEN <<Zero, Zero, v>>
        ELSE
        LET s == RDiv(rangec, maxc)
            rc == RDiv(RSub(maxc, r), rangec)
            gc == RDiv(RSub(maxc, g), rangec)
            bc == RDiv(RSub(maxc, b), rangec)
            h == IF r = maxc THEN RSub(bc, gc)
                 ELSE IF g = maxc THEN RSub(RAdd(Num(2), rc), bc)
                 ELSE RSub(RAdd(Num(4), gc), rc)
        IN  <<Mod1(RDiv(h, Num(6))), s, v>>

\* int(h * 6.0) raises ValueError when h is NaN; reached only when s == 0.0
\* is false (which it is for a NaN s)
hsv_to_rgb_raises(color) ==
    ~REq(color[2], Zero) /\ IsNaN(color[1])

hsv_to_rgb(color) ==
    LET h == color[1]
        s == color[2]
        v == color[3]
    IN  IF REq(s, Zero) THEN <<v, v, v>>
        ELSE
        LET i6 == Trunc(RMul(h, Num(6)))
            f == RSub(RMul(h, Num(6)), Num(i6))
            p == RMul(v, RSub(One, s))
            q == RMul(v, RSub(One, RMul(s, f)))
            t == RMul(v, RSub(One, RMul(s, RSub(One, f))))
            i == i6 % 6
        IN  CASE i = 0 -> <<v, t, p>>
              [] i = 1 -> <<q, v, p>>
              [] i = 2 -> <<p, v, t>>
              [] i = 3 -> <<p, q, v>>
              [] i = 4 -> <<t, p, v>>
              [] OTHER -> <<v, p, q>>

table_hsv_to_rgb(hsv_table) == [i \in 1..Len(hsv_table) |-> hsv_to_rgb(hsv_table[i])]

table_hsv_to_rgb_raises(hsv_table) ==
    \E i \in 1..Len(hsv_table) : hsv_to_rgb_raises(hsv_table[i])

table_rgb_to_hsv(rgb_table) == [i \in 1..Len(rgb_table) |-> rgb_to_hsv(rgb_table[i])]

---------------------------------------------------------------------------
(* The random source.  random.random() hands out the next value of a        *)
(* sequence fixed by the seeding; an operation that draws is given `tape`,  *)
(* the values the source will hand out next, and a cursor `pos` into it.    *)

\* values of random.random() used in the model, all in [0, 1)
RandVals == {Zero, <<3, 4>>}

Tapes(n) == [1..n -> RandVals]

---------------------------------------------------------------------------
(* ColorGenerator *)

\* __init__
ColorGenerator(constant_elems, always_use_first_offset) ==
    [first_offset |-> <<Zero, Zero, Zero>>,
     first_offset_set |-> FALSE,
     always_use_first_offset |-> always_use_first_offset,
     constant_elems |-> constant_elems]

\* how many channels below n draw from the random source
DrawsBefore(g, n) == Cardinality({m \in 0..(n - 1) : m \notin g.constant_elems})

\* a generate_offset that draws a value for every channel and discards the
\* ones drawn for held channels
generate_offset_drawheld(g, tape, pos) ==
    LET offset_t == [k \in 1..3 |->
                        IF (k - 1) \notin g.constant_elems THEN tape[pos + k] ELSE Zero]
    IN  [g |-> IF ~g.first_offset_set
               THEN [g EXCEPT !.first_offset = offset_t, !.first_offset_set = TRUE]
               ELSE g,
         pos |-> pos + 3,
         ret |-> offset_t]

\* a generate_offset that stores every offset it draws, not only the first
generate_offset_overwrite(g, tape, pos) ==
    LET offset_t == [k \in 1..3 |->
                        IF (k - 1) \notin g.constant_elems
                        THEN tape[pos + DrawsBefore(g, k - 1) + 1]
                        ELSE Zero]
    IN  [g |-> [g EXCEPT !.first_offset = offset_t, !.first_offset_set = TRUE],
         pos |-> pos + DrawsBefore(g, 3),
         ret |-> offset_t]

\* generate_offset: returns the generator after the call, the cursor after
\* the call and the offset
generate_offset(g, tape, pos) ==
    LET offset_t == [k \in 1..3 |->
                        IF (k - 1) \notin g.constant_elems
                        THEN tape[pos + DrawsBefore(g, k - 1) + 1]
                        ELSE Zero]
    IN  [g |-> IF ~g.first_offset_set
               THEN [g EXCEPT !.first_offset = offset_t, !.first_offset_set = TRUE]
               ELSE g,
         pos |-> pos + DrawsBefore(g, 3),
         ret |-> offset_t]

\* a get_next_offset that never consults the cache
get_next_offset_nocache(g, tape, pos) ==
    [g |-> IF ~g.first_offset_set
           THEN [g EXCEPT !.first_offset = [k \in 1..3 |->
                                              IF (k - 1) \notin g.constant_elems
                                              THEN tape[pos + DrawsBefore(g, k - 1) + 1]
                                              ELSE Zero],
                          !.first_offset_set = TRUE]
           ELSE g,
     pos |-> pos + DrawsBefore(g, 3),
     ret |-> [k \in 1..3 |-> IF (k - 1) \notin g.constant_elems
                             THEN tape[pos + DrawsBefore(g, k - 1) + 1]
                             ELSE Zero]]

get_next_offset(g, tape, pos) ==
    IF g.always_use_first_offset /\ g.first_offset_set
    THEN [g |-> g, pos |-> pos, ret |-> g.first_offset]
    ELSE generate_offset(g, tape, pos)

\* a sum that is not wrapped at all
new_channel_nowrap(original, offset) == RAdd(original, offset)

\* a sum that saturates at 1.0 instead of wrapping
new_channel_clip(original, offset) == RMin(RAdd(original, offset), One)

\* (original + offset) % 1.0 for one channel
new_channel(original, offset) == Mod1(RAdd(original, offset))

generate_color(g, tape, pos, original_color) ==
    LET o == get_next_offset(g, tape, pos)
    IN  [g |-> o.g,
         pos |-> o.pos,
         offset |-> o.ret,
         ret |-> [k \in 1..3 |-> new_channel(original_color[k], o.ret[k])]]

\* generate_table: generate_color for every entry, in order; `acc` collects
\* the colors and `offs` the offsets applied
RECURSIVE generate_table_loop(_, _, _, _, _, _)
generate_table_loop(g, tape, pos, rest, acc, offs) ==
    IF rest = <<>>
    THEN [g |-> g, pos |-> pos, offsets |-> offs, ret |-> acc]
    ELSE LET c == generate_color(g, tape, pos, Head(rest))
         IN  generate_table_loop(c.g, tape, c.pos, Tail(rest),
                                 Append(acc, c.ret), Append(offs, c.offset))

generate_table(g, tape, pos, original_table) ==
    generate_table_loop(g, tape, pos, original_table, <<>>, <<>>)

\* the number of values a call draws does not depend on the values drawn
ZeroTape(n) == [i \in 1..n |-> Zero]
DrawsOfOffset(g) == generate_offset(g, ZeroTape(3), 0).pos
DrawsOfNext(g) == get_next_offset(g, ZeroTape(3), 0).pos
DrawsOfTable(g, table) == generate_table(g, ZeroTape(3 * Len(table)), 0, table).pos

---------------------------------------------------------------------------
(* Palettes used as inputs *)

\* palette entries: black (achromatic), an orange with a channel at 255
\* (value and saturation 1.0 in HSV), and a blue-ish color
Colors == {<<0, 0, 0>>, <<255, 128, 0>>, <<10, 200, 255>>}

Palettes == SeqsOf(Colors, 1, MaxLen)

\* normalized colors handed to the generator's methods directly
GenColors == {<<255, 128, 0>>, <<10, 200, 255>>}

FloatColors == {table_int_to_float(<<c>>)[1] : c \in GenColors}

FloatTables == SeqsOf(FloatColors, 0, MaxLen)

---------------------------------------------------------------------------
(* SpecGen: one ColorGenerator instance driven through its methods in any   *)
(* order.  `last` records the last call: its name, argument, the values     *)
(* drawn, the offsets applied (one per color) and the result.               *)

NoCall == [op |-> "none", arg |-> <<>>, draws |-> <<>>, offsets |-> <<>>,
           ret |-> <<>>, was_set |-> FALSE]

GenInit ==
    /\ generator \in {ColorGenerator(H, a) : H \in SUBSET Channels, a \in BOOLEAN}
    /\ rng_pos = 0
    /\ last = NoCall
    /\ pc = "api"
    /\ args = <<>>
    /\ colortable = <<>>
    /\ stream = <<>>
    /\ locals = <<>>
    /\ trace = <<>>

GenFrame == UNCHANGED <<pc, args, colortable, stream, locals, trace>>

CallGenerateOffset ==
    /\ pc = "api"
    /\ rng_pos + DrawsOfOffset(generator) <= MaxDraws
    /\ \E tape \in Tapes(DrawsOfOffset(generator)) :
          \E r \in {generate_offset(generator, tape, 0)} :
              /\ generator' = r.g
              /\ rng_pos' = rng_pos + r.pos
              /\ last' = [op |-> "generate_offset", arg |-> <<>>, draws |-> tape,
                          offsets |-> <<r.ret>>, ret |-> r.ret,
                          was_set |-> generator.first_offset_set]
    /\ GenFrame

CallGetNextOffset ==
    /\ pc = "api"
    /\ rng_pos + DrawsOfNext(generator) <= MaxDraws
    /\ \E tape \in Tapes(DrawsOfNext(generator)) :
          \E r \in {get_next_offset(generator, tape, 0)} :
              /\ generator' = r.g
              /\ rng_pos' = rng_pos + r.pos
              /\ last' = [op |-> "get_next_offset", arg |-> <<>>, draws |-> tape,
                          offsets |-> <<r.ret>>, ret |-> r.ret,
                          was_set |-> generator.first_offset_set]
    /\ GenFrame

CallGenerateColor ==
    /\ pc = "api"
    /\ rng_pos + DrawsOfNext(generator) <= MaxDraws
    /\ \E c \in FloatColors : \E tape \in Tapes(DrawsOfNext(generator)) :
          \E r \in {generate_color(generator, tape, 0, c)} :
              /\ generator' = r.g
              /\ rng_pos' = rng_pos + r.pos
              /\ last' = [op |-> "generate_color", arg |-> c, draws |-> tape,
                          offsets |-> <<r.offset>>, ret |-> r.ret,
                          was_set |-> generator.first_offset_set]
    /\ GenFrame

CallGenerateTable ==
    /\ pc = "api"
    /\ \E t \in FloatTables :
          /\ rng_pos + DrawsOfTable(generator, t) <= MaxDraws
          /\ \E tape \in Tapes(DrawsOfTable(generator, t)) :
                \E r \in {generate_table(generator, tape, 0, t)} :
                    /\ generator' = r.g
                    /\ rng_pos' = rng_pos + r.pos
                    /\ last' = [op |-> "generate_table", arg |-> t, draws |-> tape,
                                offsets |-> r.offsets, ret |-> r.ret,
                                was_set |-> generator.first_offset_set]
    /\ GenFrame

GenNext ==
    \/ CallGenerateOffset
    \/ CallGetNextOffset
    \/ CallGenerateColor
    \/ CallGenerateTable

SpecGen == GenInit /\ [][GenNext]_vars

---------------------------------------------------------------------------
(* Command-line configuration *)

\* an optional argument: None is <<>>, a supplied value v is <<v>>
None == <<>>
Some(v) == <<v>>

CHAR_TO_COLOR_ELEM ==
    ("r" :> 0) @@ ("g" :> 1) @@ ("b" :> 2) @@ ("h" :> 0) @@ ("s" :> 1) @@ ("v" :> 2)

NAME_TO_COLOR_ELEM_HSV == ("hue" :> 0) @@ ("saturation" :> 1) @@ ("value" :> 2)

NAME_TO_COLOR_ELEM_RGB == ("red" :> 0) @@ ("green" :> 1) @@ ("blue" :> 2)

\* str.lower() on the characters used in the model
Lower(c) == CASE c = "R" -> "r" [] c = "G" -> "g" [] c = "B" -> "b"
              [] c = "H" -> "h" [] c = "S" -> "s" [] c = "V" -> "v"
              [] c = "X" -> "x" [] OTHER -> c

\* calc_hold_set: [error, hold_set]; parser.error ends the run
calc_hold_set(hold_str) ==
    LET charset == {Lower(hold_str[i]) : i \in 1..Len(hold_str)}
    IN  IF \E c \in charset : c \notin DOMAIN CHAR_TO_COLOR_ELEM
        THEN [error |-> "--hold: bad char", hold_set |-> {}]
        ELSE [error |-> "", hold_set |-> {CHAR_TO_COLOR_ELEM[c] : c \in charset}]

\* color_mode_from_args: [color_mode, warned]
color_mode_from_args(a) ==
    IF a.hsv THEN [color_mode |-> "HSV", warned |-> FALSE]
    ELSE [color_mode |-> "RGB", warned |-> ~a.rgb]

\* the mapping built at lines 345-348: supplied values keyed by channel index
colors_of(a, name_to_color_elem) ==
    LET names == {nm \in DOMAIN name_to_color_elem : a[nm] # None}
    IN  [n \in {name_to_color_elem[nm] : nm \in names} |->
            a[CHOOSE nm \in names : name_to_color_elem[nm] = n][1]]

\* parse_setcolor_value: [error, colors, color_mode]; parser.error ends the run
parse_setcolor_value(a) ==
    LET is_rgb == \E nm \in DOMAIN NAME_TO_COLOR_ELEM_RGB : a[nm] # None
        is_hsv == \E nm \in DOMAIN NAME_TO_COLOR_ELEM_HSV : a[nm] # None
        colors == colors_of(a, IF is_hsv THEN NAME_TO_COLOR_ELEM_HSV
                                         ELSE NAME_TO_COLOR_ELEM_RGB)
    IN  IF is_rgb /\ is_hsv
        THEN [error |-> "Must specify only RGB or only HSV values.",
              colors |-> <<>>, color_mode |-> ""]
        ELSE IF ~(is_rgb \/ is_hsv)
        THEN [error |-> "Must specify at least one color value.",
              colors |-> <<>>, color_mode |-> ""]
        ELSE IF is_hsv
        THEN IF \E n \in DOMAIN colors : RLt(colors[n], Zero) \/ RLt(One, colors[n])
             THEN [error |-> "HSV: All values must be between 0 and 1.",
                   colors |-> <<>>, color_mode |-> ""]
             ELSE [error |-> "", colors |-> colors, color_mode |-> "HSV"]
        ELSE IF \E n \in DOMAIN colors : colors[n] < 0 \/ colors[n] > MaxByte
             THEN [error |-> "RGB: All values must be between 0 and 255",
                   colors |-> <<>>, color_mode |-> ""]
             ELSE [error |-> "", colors |-> colors, color_mode |-> "RGB"]

\* a set_color whose channel numbering starts at 1
set_color_from_one(in_color, color_settings) ==
    [k \in 1..3 |-> IF k \in DOMAIN color_settings
                    THEN color_settings[k] ELSE in_color[k]]

\* set_color: color_settings.get(elem_num, orig_val) over enumerate(in_color)
set_color(in_color, color_settings) ==
    [k \in 1..3 |-> IF (k - 1) \in DOMAIN color_settings
                    THEN color_settings[k - 1] ELSE in_color[k]]

---------------------------------------------------------------------------
(* Transforms of the two modes *)

\* gen_rand_rgb_colortable up to the table handed to table_float_to_bytes
gen_rand_rgb_table(original_table, g, tape) ==
    generate_table(g, tape, 0, original_table)

\* gen_rand_hsv_colortable up to the table handed to table_float_to_bytes
gen_rand_hsv_table(original_table, g, tape) ==
    LET r == generate_table(g, tape, 0, table_rgb_to_hsv(original_table))
    IN  [r EXCEPT !.ret = table_hsv_to_rgb(r.ret)]

gen_rand_table(color_mode, original_table, g, tape) ==
    IF color_mode = "HSV" THEN gen_rand_hsv_table(original_table, g, tape)
    ELSE gen_rand_rgb_table(original_table, g, tape)

\* lines 263-264 of mode_setcolor
setcolor_hsv_tab(table, color_settings) ==
    LET hsv_tab == table_rgb_to_hsv(table_int_to_float(table))
    IN  [i \in 1..Len(hsv_tab) |-> set_color(hsv_tab[i], color_settings)]

\* line 268 of mode_setcolor
setcolor_rgb_tab(table, color_settings) ==
    [i \in 1..Len(table) |-> set_color(table[i], color_settings)]

---------------------------------------------------------------------------
(* Spec: one run of main() in randcolor or setcolor mode.                   *)
(*                                                                          *)
(* pc is the statement reached: "main", the statements of new_func          *)
(* ("open_gif", "open_stream", "screen_desc", "check_gct"), those of the    *)
(* mode function ("validate", "transform", "write"), "close", and the three *)
(* ends "done", "exit_error" (parser.error: message and exit status 2) and  *)
(* "crash" (an exception nobody catches).                                   *)

\* what the file argument names
FileKinds == {"missing", "directory", "not_gif", "gif_no_gct", "gif"}

\* --hold strings, as sequences of characters
HoldStrs == {<<>>, <<"g">>, <<"R", "b">>, <<"h", "s", "v">>, <<"r", "x">>}

RandcolorArgs ==
    [mode : {"randcolor"}, file : FileKinds, hold : HoldStrs,
     constant_offset : BOOLEAN,
     rgb : BOOLEAN, hsv : BOOLEAN]

\* values given to --red / --green / --blue and to --hue / --saturation /
\* --value in a full run
RunIntArgs == {None, Some(10), Some(255), Some(256)}
RunHsvArgs == {None, Some(One), Some(<<3, 2>>), Some(NaN)}

SetcolorArgs ==
    [mode : {"setcolor"}, file : FileKinds,
     red : RunIntArgs, green : RunIntArgs, blue : RunIntArgs,
     hue : RunHsvArgs, saturation : RunHsvArgs, value : RunHsvArgs]

NoLocals ==
    [err |-> "", colortable_exists |-> FALSE, hold_set |-> {}, color_mode |-> "",
     warned |-> FALSE, color_settings |-> <<>>, draws |-> <<>>,
     new_table |-> <<>>, out |-> <<>>]

NoStream == [open |-> FALSE, closed |-> FALSE, writes |-> <<>>]

Init ==
    /\ pc = "main"
    \* --rgb and --hsv are a mutually exclusive group
    /\ args \in {a \in RandcolorArgs : ~(a.rgb /\ a.hsv)} \cup SetcolorArgs
    /\ colortable = <<>>
    /\ stream = NoStream
    /\ generator = <<>>
    /\ rng_pos = 0
    /\ last = NoCall
    /\ locals = NoLocals
    /\ trace = <<>>

\* parser.error(...)
ParserError(msg) ==
    /\ pc' = "exit_error"
    /\ locals' = [locals EXCEPT !.err = msg]

\* an exception that propagates out of main()
Uncaught(exc) ==
    /\ pc' = "crash"
    /\ locals' = [locals EXCEPT !.err = exc]

\* main: random.seed(), then args.func(parser, args)
Main ==
    /\ pc = "main"
    /\ pc' = "open_gif"
    /\ rng_pos' = 0
    /\ UNCHANGED <<args, colortable, stream, generator, last, locals, trace>>

\* open_and_verify_gif.  gifmeta.Gif is a library call: on a file that is
\* not a GIF it raises GifStreamException; on a path that cannot be read it
\* may raise that, raise another exception, or (reading lazily) return.
OpenAndVerifyGif ==
    /\ pc = "open_gif"
    /\ trace' = Append(trace, "open_gif")
    /\ \/ /\ args.file = "gif"
          /\ \E p \in Palettes : colortable' = p
          /\ pc' = "open_stream"
          /\ UNCHANGED locals
       \/ /\ args.file \in {"gif_no_gct", "missing", "directory"}
          /\ colortable' = <<>>
          /\ pc' = "open_stream"
          /\ UNCHANGED locals
       \/ /\ args.file \in {"not_gif", "missing", "directory"}
          /\ ParserError("not a valid GIF file")
          /\ UNCHANGED colortable
       \/ /\ args.file \in {"missing", "directory"}
          /\ Uncaught("OSError")
          /\ UNCHANGED colortable
    /\ UNCHANGED <<args, stream, generator, rng_pos, last>>

\* open_and_verify_gifstream
OpenAndVerifyGifstream ==
    /\ pc = "open_stream"
    /\ trace' = Append(trace, "open_stream")
    /\ IF args.file = "missing"
       THEN ParserError("does not exist.") /\ UNCHANGED stream
       ELSE IF args.file = "directory"
       THEN ParserError("must be a file.") /\ UNCHANGED stream
       ELSE /\ stream' = [stream EXCEPT !.open = TRUE]
            /\ IF args.file = "not_gif"
               THEN ParserError("not a valid GIF file")
               ELSE pc' = "screen_desc" /\ UNCHANGED locals
    /\ UNCHANGED <<args, colortable, generator, rng_pos, last>>

\* screen_desc = gifstream.consume_screen_descriptor()
ConsumeScreenDescriptor ==
    /\ pc = "screen_desc"
    /\ trace' = Append(trace, "screen_desc")
    /\ locals' = [locals EXCEPT !.colortable_exists = (args.file = "gif")]
    /\ pc' = "check_gct"
    /\ UNCHANGED <<args, colortable, stream, generator, rng_pos, last>>

\* a check that lets a file without a global color table through
CheckColortable_NoExit ==
    /\ pc = "check_gct"
    /\ trace' = Append(trace, "check_gct")
    /\ pc' = "validate"
    /\ UNCHANGED <<args, colortable, stream, generator, rng_pos, last, locals>>

\* if not screen_desc.colortable_exists: parser.error(...)
CheckColortable ==
    /\ pc = "check_gct"
    /\ trace' = Append(trace, "check_gct")
    /\ IF ~locals.colortable_exists
       THEN ParserError("global color table is not present")
       ELSE pc' = "validate" /\ UNCHANGED locals
    /\ UNCHANGED <<args, colortable, stream, generator, rng_pos, last>>

\* a mode_randcolor that writes the table before it has checked --hold
RandcolorConfigure_WriteFirst ==
    /\ pc = "validate"
    /\ args.mode = "randcolor"
    /\ trace' = Append(trace, "validate")
    /\ stream' = [stream EXCEPT
                    !.writes = Append(@, table_float_to_bytes(table_int_to_float(colortable)))]
    /\ \E h \in {calc_hold_set(args.hold)} :
          IF h.error # ""
          THEN ParserError(h.error) /\ UNCHANGED generator
          ELSE /\ generator' = ColorGenerator(h.hold_set, args.constant_offset)
               /\ locals' = [locals EXCEPT !.hold_set = h.hold_set,
                                           !.color_mode = color_mode_from_args(args).color_mode,
                                           !.warned = color_mode_from_args(args).warned]
               /\ pc' = "transform"
    /\ UNCHANGED <<args, colortable, rng_pos, last>>

\* mode_randcolor, lines 223-232: float table, hold set, generator, color mode
RandcolorConfigure ==
    /\ pc = "validate"
    /\ args.mode = "randcolor"
    /\ trace' = Append(trace, "validate")
    /\ \E h \in {calc_hold_set(args.hold)} :
          IF h.error # ""
          THEN ParserError(h.error) /\ UNCHANGED generator
          ELSE /\ generator' = ColorGenerator(h.hold_set, args.constant_offset)
               /\ locals' = [locals EXCEPT !.hold_set = h.hold_set,
                                           !.color_mode = color_mode_from_args(args).color_mode,
                                           !.warned = color_mode_from_args(args).warned]
               /\ pc' = "transform"
    /\ UNCHANGED <<args, colortable, stream, rng_pos, last>>

\* mode_randcolor, lines 235-239: the random table and its bytes
RandcolorGenerate ==
    /\ pc = "transform"
    /\ args.mode = "randcolor"
    /\ trace' = Append(trace, "transform")
    /\ \E tape \in Tapes(DrawsOfTable(generator, table_int_to_float(colortable))) :
       \E r \in {gen_rand_table(locals.color_mode, table_int_to_float(colortable),
                                generator, tape)} :
          /\ generator' = r.g
          /\ rng_pos' = rng_pos + r.pos
          /\ IF table_float_to_bytes_raises(r.ret)
             THEN /\ pc' = "crash"
                  /\ locals' = [locals EXCEPT !.err = "ValueError", !.draws = tape]
             ELSE /\ pc' = "write"
                  /\ locals' = [locals EXCEPT !.draws = tape, !.new_table = r.ret,
                                              !.out = table_float_to_bytes(r.ret)]
    /\ UNCHANGED <<args, colortable, stream, last>>

\* gifstream.stream.write(rand_colortable)
RandcolorWrite ==
    /\ pc = "write"
    /\ args.mode = "randcolor"
    /\ trace' = Append(trace, "write")
    /\ stream' = [stream EXCEPT !.writes = Append(@, locals.out)]
    /\ pc' = "close"
    /\ UNCHANGED <<args, colortable, generator, rng_pos, last, locals>>

\* mode_setcolor, line 260
SetcolorParse ==
    /\ pc = "validate"
    /\ args.mode = "setcolor"
    /\ trace' = Append(trace, "validate")
    /\ \E r \in {parse_setcolor_value(args)} :
          IF r.error # ""
          THEN ParserError(r.error)
          ELSE /\ locals' = [locals EXCEPT !.color_settings = r.colors,
                                           !.color_mode = r.color_mode]
               /\ pc' = "transform"
    /\ UNCHANGED <<args, colortable, stream, generator, rng_pos, last>>

\* mode_setcolor, lines 262-269
SetcolorCompute ==
    /\ pc = "transform"
    /\ args.mode = "setcolor"
    /\ trace' = Append(trace, "transform")
    /\ IF locals.color_mode = "HSV"
       THEN \E new_hsv_tab \in {setcolor_hsv_tab(colortable, locals.color_settings)} :
               IF table_hsv_to_rgb_raises(new_hsv_tab)
               THEN Uncaught("ValueError")
               ELSE \E rgb \in {table_hsv_to_rgb(new_hsv_tab)} :
                       IF table_float_to_bytes_raises(rgb)
                       THEN Uncaught("ValueError")
                       ELSE /\ locals' = [locals EXCEPT !.new_table = rgb,
                                                        !.out = table_float_to_bytes(rgb)]
                            /\ pc' = "write"
       ELSE \E new_rgb_tab \in {setcolor_rgb_tab(colortable, locals.color_settings)} :
               IF table_int_to_bytes_raises(new_rgb_tab)
               THEN Uncaught("ValueError")
               ELSE /\ locals' = [locals EXCEPT !.new_table = new_rgb_tab,
                                                !.out = table_int_to_bytes(new_rgb_tab)]
                    /\ pc' = "write"
    /\ UNCHANGED <<args, colortable, stream, generator, rng_pos, last>>

\* gifstream.stream.write(out_table)
SetcolorWrite ==
    /\ pc = "write"
    /\ args.mode = "setcolor"
    /\ trace' = Append(trace, "write")
    /\ stream' = [stream EXCEPT !.writes = Append(@, locals.out)]
    /\ pc' = "close"
    /\ UNCHANGED <<args, colortable, generator, rng_pos, last, locals>>

\* gifstream.close()
Close ==
    /\ pc = "close"
    /\ trace' = Append(trace, "close")
    /\ stream' = [stream EXCEPT !.closed = TRUE]
    /\ pc' = "done"
    /\ UNCHANGED <<args, colortable, generator, rng_pos, last, locals>>

Next ==
    \/ Main
    \/ OpenAndVerifyGif
    \/ OpenAndVerifyGifstream
    \/ ConsumeScreenDescriptor
    \/ CheckColortable
    \/ RandcolorConfigure
    \/ RandcolorGenerate
    \/ RandcolorWrite
    \/ SetcolorParse
    \/ SetcolorCompute
    \/ SetcolorWrite
    \/ Close

Spec == Init /\ [][Next]_vars

---------------------------------------------------------------------------
(* SpecParse: parse_setcolor_value applied to a setcolor Namespace.  --red, *)
(* --green, --blue are parsed with type=int; --hue, --saturation, --value   *)
(* with type=float, which accepts "nan".                                    *)

ParseIntArgs == {None, Some(-1), Some(0), Some(255), Some(256)}
ParseHsvArgs == {None, Some(<<-1, 2>>), Some(Zero), Some(One), Some(<<3, 2>>), Some(NaN)}

ParseArgs ==
    [mode : {"setcolor"}, file : {"gif"},
     red : ParseIntArgs, green : ParseIntArgs, blue : ParseIntArgs,
     hue : ParseHsvArgs, saturation : ParseHsvArgs, value : ParseHsvArgs]

ParseInit ==
    /\ pc = "parse"
    /\ args \in ParseArgs
    /\ colortable = <<>>
    /\ stream = NoStream
    /\ generator = <<>>
    /\ rng_pos = 0
    /\ last = NoCall
    /\ locals = NoLocals
    /\ trace = <<>>

\* color_settings, color_mode = parse_setcolor_value(parser, args)
ParseSetcolorValue ==
    /\ pc = "parse"
    /\ \E r \in {parse_setcolor_value(args)} :
          IF r.error # ""
          THEN ParserError(r.error)
          ELSE /\ locals' = [locals EXCEPT !.color_settings = r.colors,
                                           !.color_mode = r.color_mode]
               /\ pc' = "parsed"
    /\ UNCHANGED <<args, colortable, stream, generator, rng_pos, last, trace>>

ParseNext == ParseSetcolorValue

SpecParse == ParseInit /\ [][ParseNext]_vars

\* what the claim says about a Namespace
SuppliedRgb == {nm \in DOMAIN NAME_TO_COLOR_ELEM_RGB : args[nm] # None}
SuppliedHsv == {nm \in DOMAIN NAME_TO_COLOR_ELEM_HSV : args[nm] # None}

RgbOutside == \E nm \in SuppliedRgb : args[nm][1] \notin 0..MaxByte
HsvOutside == \E nm \in SuppliedHsv :
                 ~(RLe(Zero, args[nm][1]) /\ RLe(args[nm][1], One))

MustReject ==
    \/ SuppliedRgb # {} /\ SuppliedHsv # {}
    \/ SuppliedRgb = {} /\ SuppliedHsv = {}
    \/ RgbOutside
    \/ HsvOutside

\* C5: parse_setcolor_value ends in a configuration error when RGB and HSV
\* values are mixed, when no value is supplied, when an RGB value is outside
\* 0..255 or an HSV value is outside 0.0..1.0; otherwise it returns the map
\* from channel index to the supplied constants and the representation used.
C5_ParseSetcolorValue ==
    /\ (pc = "exit_error") => MustReject
    /\ (pc = "parsed") =>
          /\ ~MustReject
          /\ locals.color_mode = (IF SuppliedHsv # {} THEN "HSV" ELSE "RGB")
          /\ \A nm \in SuppliedRgb :
                locals.color_settings[NAME_TO_COLOR_ELEM_RGB[nm]] = args[nm][1]
          /\ \A nm \in SuppliedHsv :
                locals.color_settings[NAME_TO_COLOR_ELEM_HSV[nm]] = args[nm][1]
          /\ Cardinality(DOMAIN locals.color_settings)
                = Cardinality(SuppliedRgb \cup SuppliedHsv)

---------------------------------------------------------------------------
(* Claims about the ColorGenerator (checked under SpecGen) *)

NextOps == {"get_next_offset", "generate_color", "generate_table"}

Unheld(g) == Channels \ g.constant_elems

\* C1: generate_color leaves every channel whose index is in the hold-set
\* equal to the original channel value (so with all three channels held the
\* color is returned unchanged).
C1_HeldChannelsUnchanged ==
    last.op = "generate_color" =>
        \A n \in generator.constant_elems : last.ret[n + 1] = last.arg[n + 1]

\* C2: in reuse mode every get_next_offset / generate_color / generate_table
\* call applies the cached first offset to every color; it draws from the
\* random source only if the cache was unset when it began (and then only
\* the one offset it caches), and draws nothing once the cache is set.
C2_ReuseAppliesFirstOffset ==
    (generator.always_use_first_offset /\ last.op \in NextOps) =>
        /\ \A i \in 1..Len(last.offsets) : last.offsets[i] = generator.first_offset
        /\ last.was_set => last.draws = <<>>
        /\ (~last.was_set /\ last.offsets # <<>>) =>
              Len(last.draws) = Cardinality(Unheld(generator))
        /\ Len(last.draws) <= Cardinality(Unheld(generator))

\* a table call in reuse mode with the cache already set, on a table of two
\* or more colors, with a non-zero cached offset
C2_Witness ==
    /\ generator.always_use_first_offset
    /\ last.op = "generate_table"
    /\ last.was_set
    /\ Len(last.arg) >= 2
    /\ last.arg[1] # last.arg[2]
    /\ generator.first_offset # <<Zero, Zero, Zero>>

\* C8: every channel of a color returned by generate_color (alone or
\* through generate_table) lies in [0, 1).
InUnit(x) == RLe(Zero, x) /\ RLt(x, One)

C8_WrapStaysInUnitInterval ==
    /\ last.op = "generate_color" =>
          \A k \in 1..3 : InUnit(last.ret[k])
    /\ last.op = "generate_table" =>
          \A i \in 1..Len(last.ret) : \A k \in 1..3 : InUnit(last.ret[i][k])

\* a generate_color call in which original + offset reached 1.0 or more on
\* some channel, and the result is the sum less one
C8_Witness ==
    /\ last.op = "generate_color"
    /\ \E k \in 1..3 :
          /\ RLt(One, RAdd(last.arg[k], last.offsets[1][k]))
          /\ last.ret[k] = RSub(RAdd(last.arg[k], last.offsets[1][k]), One)

\* the offset a generate_offset call must return, given the values it drew
FreshOffset(g, draws) ==
    [k \in 1..3 |-> IF (k - 1) \in g.constant_elems THEN Zero
                    ELSE draws[DrawsBefore(g, k - 1) + 1]]

\* C9: a new generator starts unset; the first generate_offset call (reuse
\* mode or not) caches its draw and sets the flag; from then on no call
\* changes the cache or the flag; and generate_offset returns a fresh draw on
\* every call.
C9_CacheSetOnce ==
    /\ ~generator.first_offset_set
    /\ [][/\ generator.first_offset_set => generator' = generator
          /\ (~generator.first_offset_set /\ last'.op = "generate_offset") =>
                /\ generator'.first_offset_set
                /\ generator'.first_offset = last'.ret
          /\ last'.op = "generate_offset" =>
                /\ Len(last'.draws) = Cardinality(Unheld(generator))
                /\ rng_pos' = rng_pos + Len(last'.draws)
                /\ last'.ret = FreshOffset(generator, last'.draws)
          /\ generator'.constant_elems = generator.constant_elems
          /\ generator'.always_use_first_offset = generator.always_use_first_offset
         ]_vars

\* a generate_offset call made with the cache already set, in reuse mode,
\* that returned an offset different from the cached one
C9_Witness ==
    /\ last.op = "generate_offset"
    /\ last.was_set
    /\ generator.always_use_first_offset
    /\ last.ret # generator.first_offset

---------------------------------------------------------------------------
(* Claims about a run of a mode (checked under Spec) *)

\* the buffer has been computed (and perhaps written)
Computed == pc \in {"write", "close", "done"}

NumEntries == Len(colortable)

\* the channel index (1..3) and entry index (1..N) of byte j of a buffer
ByteChannel(j) == ((j - 1) % 3) + 1
ByteEntry(j) == ((j - 1) \div 3) + 1

\* C3: in setcolor's integer path every entry of the output has each mapped
\* channel equal to the mapped constant and each unmapped channel equal to
\* the original value; the bytes are those channels in entry order; the map
\* is the one the command line gave; no randomness is consumed.
C3_FixedValueTransform ==
    (args.mode = "setcolor" /\ Computed /\ locals.color_mode = "RGB") =>
        LET m == locals.color_settings
        IN  /\ m # <<>>
            /\ \A nm \in DOMAIN NAME_TO_COLOR_ELEM_RGB :
                  LET n == NAME_TO_COLOR_ELEM_RGB[nm]
                  IN  IF args[nm] = None THEN n \notin DOMAIN m
                      ELSE n \in DOMAIN m /\ m[n] = args[nm][1]
            /\ Len(locals.out) = 3 * NumEntries
            /\ \A j \in 1..Len(locals.out) :
                  locals.out[j] =
                     IF (ByteChannel(j) - 1) \in DOMAIN m
                     THEN m[ByteChannel(j) - 1]
                     ELSE colortable[ByteEntry(j)][ByteChannel(j)]
            /\ rng_pos = 0
            /\ pc \in {"close", "done"} => stream.writes = <<locals.out>>

\* a finished setcolor run on a palette of two different entries that
\* overwrote some channel and kept another one
C3_Witness ==
    /\ args.mode = "setcolor"
    /\ pc = "done"
    /\ locals.color_mode = "RGB"
    /\ NumEntries >= 2
    /\ colortable[1] # colortable[2]
    /\ \E n \in Channels : n \in DOMAIN locals.color_settings
    /\ \E n \in Channels : n \notin DOMAIN locals.color_settings
    /\ stream.writes[1] # table_int_to_bytes(colortable)

\* some --hue / --saturation / --value is NaN
HasNaNArg ==
    /\ args.mode = "setcolor"
    /\ \E nm \in DOMAIN NAME_TO_COLOR_ELEM_HSV : args[nm] = Some(NaN)

\* the byte of one channel of the table the bytes were made from
ByteOf(x) == IF locals.color_mode = "RGB" /\ args.mode = "setcolor"
             THEN x
             ELSE (MaxByte * x[1]) \div x[2]

\* C4: both transforms, in both color spaces, produce exactly 3 * N bytes,
\* each in 0..255, bytes 3i..3i+2 being the channels of transformed entry i
\* in channel order; the palette keeps its length; and with a valid
\* configuration the transform always produces its buffer (building it never
\* fails).
C4_OutputShape ==
    /\ Computed =>
          /\ Len(locals.out) = 3 * NumEntries
          /\ Len(locals.new_table) = NumEntries
          /\ \A j \in 1..Len(locals.out) :
                /\ locals.out[j] \in 0..MaxByte
                /\ locals.out[j] = ByteOf(locals.new_table[ByteEntry(j)][ByteChannel(j)])
          /\ pc \in {"close", "done"} => stream.writes = <<locals.out>>
    /\ (pc = "crash" /\ "transform" \in {trace[i] : i \in 1..Len(trace)}) => HasNaNArg

\* a finished randcolor run in HSV space on a palette of two different
\* entries that changed the palette
C4_Witness ==
    /\ args.mode = "randcolor"
    /\ pc = "done"
    /\ locals.color_mode = "HSV"
    /\ NumEntries >= 2
    /\ colortable[1] # colortable[2]
    /\ stream.writes[1] # table_int_to_bytes(colortable)

TraceSet == {trace[i] : i \in 1..Len(trace)}

\* C6: a run that ends in an error has written nothing; a write happens only
\* with the whole buffer computed and every validation passed, and what is
\* written is that buffer, once.
C6_NoWriteOnError ==
    /\ pc \in {"exit_error", "crash"} => stream.writes = <<>>
    /\ stream.writes # <<>> =>
          /\ pc \in {"close", "done"}
          /\ locals.err = ""
          /\ {"check_gct", "validate", "transform"} \subseteq TraceSet
          /\ stream.writes = <<locals.out>>
          /\ Len(locals.out) = 3 * NumEntries

\* a run ended by the mode function's own validation, with the stream open
C6_Witness ==
    /\ pc = "exit_error"
    /\ stream.open
    /\ "validate" \in TraceSet
    /\ locals.err = "--hold: bad char"

\* The randomize transform replayed from the values the random source
\* handed out: entry i, channel k uses draw number
\* (i - 1) * (unheld channels) + (unheld channels below k) + 1, or with the
\* reuse flag the draw of entry 1; held channels use no draw.
C7_Unheld == Cardinality(Channels \ locals.hold_set)

C7_Offset(i, k) ==
    IF (k - 1) \in locals.hold_set THEN Zero
    ELSE locals.draws[(IF args.constant_offset THEN 0 ELSE (i - 1) * C7_Unheld)
                      + Cardinality({m \in 0..(k - 2) : m \notin locals.hold_set}) + 1]

C7_Float(i) == [k \in 1..3 |-> Rat(colortable[i][k], MaxByte)]

C7_Source(i) == IF locals.color_mode = "HSV" THEN rgb_to_hsv(C7_Float(i)) ELSE C7_Float(i)

C7_New(i) == [k \in 1..3 |-> Mod1(RAdd(C7_Source(i)[k], C7_Offset(i, k)))]

C7_Rgb(i) == IF locals.color_mode = "HSV" THEN hsv_to_rgb(C7_New(i)) ELSE C7_New(i)

C7_Bytes ==
    [j \in 1..(3 * NumEntries) |->
        LET x == C7_Rgb(ByteEntry(j))[ByteChannel(j)] IN (MaxByte * x[1]) \div x[2]]

\* C7: the output of the randomize transform is determined by the palette,
\* the configuration and the sequence of values the random source handed
\* out (so two runs given the same sequence produce the same bytes), and
\* the source is consumed in palette order, channels 0, 1, 2 within an
\* entry, with no draw for a held channel.
C7_DeterministicReplay ==
    (args.mode = "randcolor" /\ Computed) =>
        /\ Len(locals.draws) = (IF args.constant_offset THEN 1 ELSE NumEntries) * C7_Unheld
        /\ rng_pos = Len(locals.draws)
        /\ locals.out = C7_Bytes

\* a finished randcolor run without the reuse flag, one channel held, on a
\* palette of two entries, whose two entries got different offsets
C7_Witness ==
    /\ args.mode = "randcolor"
    /\ pc = "done"
    /\ ~args.constant_offset
    /\ Cardinality(locals.hold_set) = 1
    /\ NumEntries >= 2
    /\ \E k \in 1..3 : C7_Offset(1, k) # C7_Offset(2, k)
    /\ SubSeq(locals.draws, 1, 2) # SubSeq(locals.draws, 3, 4)

StepOrder ==
    <<"open_gif", "open_stream", "screen_desc", "check_gct",
      "validate", "transform", "write", "close">>

\* C10: the steps run in the fixed order open and verify, screen descriptor,
\* color-table check, transform, close; the transform writes at most once,
\* only after the color-table check found a table and never after the
\* close; and a mode that completes has closed the stream.
C10_StepOrder ==
    /\ Len(trace) <= Len(StepOrder)
    /\ trace = SubSeq(StepOrder, 1, Len(trace))
    /\ Len(stream.writes) = Cardinality({i \in 1..Len(trace) : trace[i] = "write"})
    /\ stream.writes # <<>> => locals.colortable_exists /\ args.file = "gif"
    /\ stream.closed <=> "close" \in TraceSet
    /\ stream.closed => stream.open /\ Len(stream.writes) = 1
    /\ pc = "done" <=> stream.closed

\* a completed run
C10_Witness ==
    /\ pc = "done"
    /\ trace = StepOrder
    /\ stream.closed
    /\ Len(stream.writes) = 1

=============================================================================
